---- MODULE Spec2Model ----
(***************************************************************************)
(* Model of loganalyzer.py: parse_event (record -> event dictionary), the  *)
(* detection loop of analyze_events over the module-level failed_logins    *)
(* and alerts, and the two sinks display_alerts and save_alerts_csv, run   *)
(* in the order of the __main__ block.                                     *)
(*                                                                         *)
(* Python values that may be None are tagged records: Str(s) or None.      *)
(* The text of the EventID element is a tuple of one-character strings so  *)
(* that int() is computed digit by digit; every other text is a string.    *)
(***************************************************************************)
EXTENDS Integers, Sequences, FiniteSets, TLC

\* ---- bounds of the model ----
MaxRecords == 7
MaxOther == 2
MaxRuns == 2

\* ---- configuration (loganalyzer.py:17-21) ----
FAILED_LOGIN_EVENT_ID == 4625
ACCOUNT_CREATED_EVENT_ID == 4720
PRIV_ESCALATION_EVENT_ID == 4672
SERVICE_STOP_EVENT_ID == 7036
FAILED_LOGIN_THRESHOLD == 5

\* ---- Python values ----
None == [type |-> "NoneType"]
Str(s) == [type |-> "str", val |-> s]

\* ---- XML elements of a record ----
\* an element that find() does not locate
Absent == [present |-> FALSE]
\* an element that find() locates; its .text is None when it has no content
Elem(t) == [present |-> TRUE, text |-> t]
\* the TimeCreated element with its attrib dictionary
TimeElem(has, t) == [present |-> TRUE, hasSystemTime |-> has, SystemTime |-> t]

\* ---- int(): the builtin applied to the EventID text ----
DigitChars == <<"0", "1", "2", "3", "4", "5", "6", "7", "8", "9">>
IsDigit(c) == \E i \in 1..10 : DigitChars[i] = c
DigitVal(c) == (CHOOSE i \in 1..10 : DigitChars[i] = c) - 1

RECURSIVE LStrip(_)
LStrip(s) == IF s # <<>> /\ Head(s) = " " THEN LStrip(Tail(s)) ELSE s

RECURSIVE RStrip(_)
RStrip(s) ==
  IF s # <<>> /\ s[Len(s)] = " " THEN RStrip(SubSeq(s, 1, Len(s) - 1)) ELSE s

Strip(s) == RStrip(LStrip(s))

Unsigned(s) == IF s # <<>> /\ Head(s) \in {"+", "-"} THEN Tail(s) ELSE s

\* the literals int() accepts: optional blanks, optional sign, digits with
\* single underscores between them
IsIntLiteral(s) ==
  LET b == Unsigned(Strip(s)) IN
    /\ b # <<>>
    /\ IsDigit(b[1])
    /\ IsDigit(b[Len(b)])
    /\ \A i \in 1..Len(b) :
          \/ IsDigit(b[i])
          \/ (b[i] = "_" /\ i > 1 /\ b[i - 1] # "_")

RECURSIVE DigitsValue(_, _)
DigitsValue(b, acc) ==
  IF b = <<>> THEN acc
  ELSE IF Head(b) = "_" THEN DigitsValue(Tail(b), acc)
  ELSE DigitsValue(Tail(b), 10 * acc + DigitVal(Head(b)))

IntOf(s) ==
  LET t == Strip(s)
      v == DigitsValue(Unsigned(t), 0)
  IN IF Head(t) = "-" THEN 0 - v ELSE v

\* ---- parse_event ----
Raise(exc) == [raised |-> exc, value |-> None]
Return(v) == [raised |-> "none", value |-> v]

\* variant: an absent element yields None instead of the default
TextOrDefault_NoDefault(elem, default) == IF elem.present THEN elem.text ELSE None

\* elem.text if elem is not None else default
TextOrDefault(elem, default) == IF elem.present THEN elem.text ELSE Str(default)

parse_event(record_xml) ==
  IF ~record_xml.wellformed THEN Raise("ParseError")
  ELSE IF ~record_xml.EventID.present THEN Raise("AttributeError")
  ELSE IF record_xml.EventID.text = None THEN Raise("TypeError")
  ELSE IF ~IsIntLiteral(record_xml.EventID.text.val) THEN Raise("ValueError")
  ELSE IF ~record_xml.TimeCreated.present THEN Raise("AttributeError")
  ELSE IF ~record_xml.TimeCreated.hasSystemTime THEN Raise("KeyError")
  ELSE Return([EventID |-> IntOf(record_xml.EventID.text.val),
               Time |-> Str(record_xml.TimeCreated.SystemTime),
               Account |-> TextOrDefault(record_xml.TargetUserName, "N/A"),
               Message |-> TextOrDefault(record_xml.Message, "")])

\* ---- the records the Record Source may yield ----
RECURSIVE Decimal(_)
\* the decimal digits of a natural number, as the archive writes an EventID
Decimal(n) ==
  IF n < 10 THEN <<DigitChars[n + 1]>>
  ELSE Append(Decimal(n \div 10), DigitChars[(n % 10) + 1])

\* the EventIDs the rules match, and some they do not
RuleEventIDs == {FAILED_LOGIN_EVENT_ID, ACCOUNT_CREATED_EVENT_ID,
                 PRIV_ESCALATION_EVENT_ID, SERVICE_STOP_EVENT_ID}
OtherEventIDs == {4624}
EventIDs == RuleEventIDs \cup OtherEventIDs

EventIDTexts ==
  {Decimal(n) : n \in EventIDs}
    \cup {<<"a", "b", "c">>, <<" ">>, <<" ">> \o Decimal(ACCOUNT_CREATED_EVENT_ID),
          <<"-", "1">>, <<"4", "_", "6">>, <<"4", "6", "_">>}
EventIDElems == {Absent, Elem(None)} \cup {Elem(Str(s)) : s \in EventIDTexts}
TimeElems == {Absent, TimeElem(FALSE, ""), TimeElem(TRUE, "t1"), TimeElem(TRUE, "t2")}
UserElems == {Absent, Elem(None), Elem(Str("bob")), Elem(Str("alice"))}
MessageElems == {Absent, Elem(None), Elem(Str("m"))}

Record(eid, time, user, msg) ==
  [wellformed |-> TRUE, EventID |-> eid, TimeCreated |-> time,
   TargetUserName |-> user, Message |-> msg]
MalformedRecord ==
  [wellformed |-> FALSE, EventID |-> Absent, TimeCreated |-> Absent,
   TargetUserName |-> Absent, Message |-> Absent]

\* every record shape parse_event is applied to in SpecParse
RawRecords ==
  {Record(e, t, u, m) : e \in EventIDElems, t \in TimeElems,
                        u \in UserElems, m \in MessageElems}
    \cup {MalformedRecord}

\* the archives of a run: a repeated failed login of one account, with at
\* most MaxOther records of the other shapes in between
PrimaryRecord ==
  Record(Elem(Str(Decimal(FAILED_LOGIN_EVENT_ID))), TimeElem(TRUE, "t1"),
         Elem(Str("bob")), Absent)
OtherRecords ==
  {Record(Elem(Str(Decimal(FAILED_LOGIN_EVENT_ID))), TimeElem(TRUE, "t2"), u, Absent) :
      u \in {Absent, Elem(None)}}
    \cup {Record(Elem(Str(Decimal(n))), TimeElem(TRUE, "t2"), Elem(Str("alice")), Elem(Str("m"))) :
      n \in {ACCOUNT_CREATED_EVENT_ID, PRIV_ESCALATION_EVENT_ID, SERVICE_STOP_EVENT_ID}}
    \cup {Record(Elem(Str(Decimal(ACCOUNT_CREATED_EVENT_ID))), TimeElem(TRUE, "t2"),
                 Absent, Absent),
          Record(Elem(Str(Decimal(PRIV_ESCALATION_EVENT_ID))), TimeElem(TRUE, "t2"),
                 Elem(None), Elem(None))}
    \cup {Record(Elem(Str(Decimal(n))), TimeElem(TRUE, "t2"), Elem(Str("bob")), Elem(Str("m"))) :
      n \in OtherEventIDs}
    \cup {MalformedRecord,
          Record(Absent, TimeElem(TRUE, "t2"), Elem(Str("bob")), Absent),
          Record(Elem(Str(<<"a", "b", "c">>)), TimeElem(TRUE, "t2"), Elem(Str("bob")), Absent),
          Record(Elem(Str(Decimal(FAILED_LOGIN_EVENT_ID))), Absent, Elem(Str("bob")), Absent)}
ArchiveRecords == {PrimaryRecord} \cup OtherRecords
OtherCount(s) == Cardinality({i \in DOMAIN s : s[i] # PrimaryRecord})

\* ---- state ----
VARIABLES
  pc,             \* position in the __main__ block
  run,            \* invocations of analyze_events started in this process
  more,           \* whether the open archive holds a record not yet yielded
  log,            \* the records yielded so far, in source order
  result,         \* outcome of the last parse_event call
  processed,      \* the events the rules have evaluated, in order
  failed_logins,  \* module-level defaultdict(int)
  alerts,         \* module-level list
  origin,         \* origin[i]: index in log of the record that appended alerts[i]
  console,        \* what console.print has written
  csv_file,       \* alerts_report.csv
  exit_status     \* "running", "0" or "1"

vars == <<pc, run, more, log, result, processed, failed_logins, alerts,
          origin, console, csv_file, exit_status>>

\* ---- the detection rules ----
\* defaultdict(int): a missing key reads as 0
Get(fl, k) == IF k \in DOMAIN fl THEN fl[k] ELSE 0

\* variant: one shared counter, every account's count grows
Incremented_Shared(fl, k) == [a \in DOMAIN fl \cup {k} |-> Get(fl, a) + 1]

\* failed_logins[k] += 1
Incremented(fl, k) ==
  [a \in DOMAIN fl \cup {k} |-> IF a = k THEN Get(fl, k) + 1 ELSE fl[a]]

Alert(event, type, details) ==
  [Time |-> event.Time, Account |-> event.Account,
   Type |-> Str(type), Details |-> details]

\* f"{count} failed attempts"
FailedAttempts(count) == Str(ToString(count) \o " failed attempts")

\* variant: the increment sits before the if/elif chain
CountersAfter_EveryEvent(event, fl) == Incremented(fl, event.Account)

\* the counters after the rules have evaluated event
CountersAfter(event, fl) ==
  IF event.EventID = FAILED_LOGIN_EVENT_ID
  THEN Incremented(fl, event.Account)
  ELSE fl

\* variant: > instead of >=
ThresholdReached_Strict(count) == count > FAILED_LOGIN_THRESHOLD

\* failed_logins[event["Account"]] >= FAILED_LOGIN_THRESHOLD
ThresholdReached(count) == count >= FAILED_LOGIN_THRESHOLD

\* variant: the service-stop branch reports under the wrong type
UnconditionalAlert_WrongType(event) ==
  IF event.EventID = ACCOUNT_CREATED_EVENT_ID THEN
    <<Alert(event, "New User Account Created", event.Message)>>
  ELSE IF event.EventID = PRIV_ESCALATION_EVENT_ID THEN
    <<Alert(event, "Privilege Escalation", event.Message)>>
  ELSE IF event.EventID = SERVICE_STOP_EVENT_ID THEN
    <<Alert(event, "Privilege Escalation", event.Message)>>
  ELSE <<>>

\* the three elif branches
UnconditionalAlert(event) ==
  IF event.EventID = ACCOUNT_CREATED_EVENT_ID THEN
    <<Alert(event, "New User Account Created", event.Message)>>
  ELSE IF event.EventID = PRIV_ESCALATION_EVENT_ID THEN
    <<Alert(event, "Privilege Escalation", event.Message)>>
  ELSE IF event.EventID = SERVICE_STOP_EVENT_ID THEN
    <<Alert(event, "Service Stopped", event.Message)>>
  ELSE <<>>

\* the alerts the if/elif chain appends for event; fl is CountersAfter
NewAlerts(event, fl) ==
  IF event.EventID = FAILED_LOGIN_EVENT_ID THEN
    IF ThresholdReached(Get(fl, event.Account))
    THEN <<Alert(event, "Multiple Failed Logins",
                 FailedAttempts(Get(fl, event.Account)))>>
    ELSE <<>>
  ELSE UnconditionalAlert(event)

\* variant: alerts.insert(0, ...)
Appended_AtFront(al, new) == new \o al

\* alerts.append(...)
Appended(al, new) == al \o new

\* variant: the exception is swallowed and the loop goes on
AfterRaise_Skip(here) == here

\* where control is after parse_event raises inside the loop at `here`: no
\* try/except encloses the call, so the exception unwinds analyze_events and
\* the __main__ block
AfterRaise(here) == "aborted"

\* ---- the sinks ----
Text(s) == [kind |-> "text", title |-> s, columns |-> <<>>, rows |-> <<>>]

\* a cell as rich and pandas write it: None is written as nothing
Cell(v) == IF v.type = "NoneType" THEN "" ELSE v.val
Row(alert) ==
  <<Cell(alert.Time), Cell(alert.Account), Cell(alert.Type), Cell(alert.Details)>>
Rows(al) == [i \in 1..Len(al) |-> Row(al[i])]

display_alerts(al) ==
  IF al = <<>> THEN Text("No suspicious events detected!")
  ELSE [kind |-> "table", title |-> "Suspicious Windows Events Detected",
        columns |-> <<"Time", "Account", "Type", "Details">>,
        rows |-> Rows(al)]

NoFile == [exists |-> FALSE, header |-> <<>>, rows |-> <<>>]

\* variant: no `if alerts` guard, an empty report is written too
save_alerts_csv_Unguarded(al, file) ==
  [exists |-> TRUE, header |-> <<"Time", "Account", "Type", "Details">>,
   rows |-> Rows(al)]

\* pd.DataFrame(alerts).to_csv(filename, index=False); file is what is on disk
save_alerts_csv(al, file) ==
  IF al # <<>>
  THEN [exists |-> TRUE, header |-> <<"Time", "Account", "Type", "Details">>,
        rows |-> Rows(al)]
  ELSE file

\* ---- actions ----
NoResult == Return(None)

Init ==
  /\ pc = "start"
  /\ run = 0
  /\ more = FALSE
  /\ log = <<>>
  /\ result = NoResult
  /\ processed = <<>>
  /\ failed_logins = [a \in {} |-> 0]
  /\ alerts = <<>>
  /\ origin = <<>>
  /\ console = <<>>
  /\ csv_file = NoFile
  /\ exit_status = "running"

\* __main__ prints the banner and analyze_events opens the archive
Start ==
  /\ pc = "start"
  /\ pc' = "analyzing"
  /\ run' = 1
  /\ more' \in BOOLEAN
  /\ console' = Append(console, Text("Starting Windows Event Log Analyzer..."))
  /\ UNCHANGED <<log, result, processed, failed_logins, alerts, origin,
                 csv_file, exit_status>>

\* the archive cannot be opened: the exception ends the process
OpenFails ==
  /\ pc = "start"
  /\ pc' = "aborted"
  /\ run' = 1
  /\ exit_status' = "1"
  /\ console' = Append(console, Text("Starting Windows Event Log Analyzer..."))
  /\ UNCHANGED <<more, log, result, processed, failed_logins, alerts,
                 origin, csv_file>>

\* one iteration of the loop over log.records()
ProcessRecord(r) ==
  /\ pc = "analyzing"
  /\ more
  /\ OtherCount(Append(log, r)) <= MaxOther
  /\ more' \in IF Len(log) + 1 < MaxRecords THEN BOOLEAN ELSE {FALSE}
  /\ log' = Append(log, r)
  /\ result' = parse_event(r)
  /\ IF result'.raised # "none"
     THEN /\ pc' = AfterRaise(pc)
          /\ exit_status' = IF pc' = "aborted" THEN "1" ELSE exit_status
          /\ UNCHANGED <<processed, failed_logins, alerts, origin>>
     ELSE /\ pc' = pc
          /\ processed' = Append(processed, result'.value)
          /\ failed_logins' = CountersAfter(result'.value, failed_logins)
          /\ alerts' = Appended(alerts, NewAlerts(result'.value, failed_logins'))
          /\ origin' = origin \o [i \in 1..(Len(alerts') - Len(alerts)) |-> Len(log')]
          /\ UNCHANGED exit_status
  /\ UNCHANGED <<run, console, csv_file>>

\* the archive is exhausted: analyze_events returns
EndOfRecords ==
  /\ pc = "analyzing"
  /\ ~more
  /\ pc' = "analyzed"
  /\ UNCHANGED <<run, more, log, result, processed, failed_logins, alerts,
                 origin, console, csv_file, exit_status>>

Display ==
  /\ pc = "analyzed"
  /\ pc' = "displayed"
  /\ console' = Append(console, display_alerts(alerts))
  /\ UNCHANGED <<run, more, log, result, processed, failed_logins, alerts,
                 origin, csv_file, exit_status>>

Save ==
  /\ pc = "displayed"
  /\ pc' = "saved"
  /\ csv_file' = save_alerts_csv(alerts, csv_file)
  /\ console' = IF alerts # <<>>
                THEN Append(console, Text("Alerts saved to alerts_report.csv"))
                ELSE console
  /\ UNCHANGED <<run, more, log, result, processed, failed_logins, alerts,
                 origin, exit_status>>

Complete ==
  /\ pc = "saved"
  /\ pc' = "done"
  /\ exit_status' = "0"
  /\ console' = Append(console, Text("Analysis Complete!"))
  /\ UNCHANGED <<run, more, log, result, processed, failed_logins, alerts,
                 origin, csv_file>>

Next ==
  \/ Start
  \/ OpenFails
  \/ \E r \in ArchiveRecords : ProcessRecord(r)
  \/ EndOfRecords
  \/ Display
  \/ Save
  \/ Complete

Spec == Init /\ [][Next]_vars

\* ---- a caller that imports the module and analyzes another archive ----
AnalyzeAgain ==
  /\ pc = "saved"
  /\ run < MaxRuns
  /\ pc' = "analyzing"
  /\ run' = run + 1
  /\ more' \in IF Len(log) < MaxRecords THEN BOOLEAN ELSE {FALSE}
  /\ UNCHANGED <<log, result, processed, failed_logins, alerts, origin,
                 console, csv_file, exit_status>>

NextReuse == Next \/ AnalyzeAgain

SpecReuse == Init /\ [][NextReuse]_vars

\* ---- parse_event alone, on every record shape ----
InitParse ==
  /\ pc = "parsing"
  /\ run = 0
  /\ more = FALSE
  /\ log \in {<<r>> : r \in RawRecords}
  /\ result = NoResult
  /\ processed = <<>>
  /\ failed_logins = [a \in {} |-> 0]
  /\ alerts = <<>>
  /\ origin = <<>>
  /\ console = <<>>
  /\ csv_file = NoFile
  /\ exit_status = "running"

ParseRecord ==
  /\ pc = "parsing"
  /\ pc' = "parsed"
  /\ result' = parse_event(log[1])
  /\ UNCHANGED <<run, more, log, processed, failed_logins, alerts, origin,
                 console, csv_file, exit_status>>

SpecParse == InitParse /\ [][ParseRecord]_vars

\* ======================= properties =======================

\* the step evaluated one record that parsed
Evaluated == Len(log') = Len(log) + 1 /\ result'.raised = "none"
\* the step read one record on which parse_event raised
ParseFailed == Len(log') = Len(log) + 1 /\ result'.raised # "none"

\* how many failed-login events of account a are among evs
FailedLoginsOf(evs, a) ==
  Cardinality({i \in DOMAIN evs :
                 evs[i].EventID = FAILED_LOGIN_EVENT_ID /\ evs[i].Account = a})

\* every value an event's Account takes on ArchiveRecords
Accounts == {Str("bob"), Str("alice"), Str("N/A"), None}

UnconditionalType(id) ==
  CASE id = ACCOUNT_CREATED_EVENT_ID -> "New User Account Created"
    [] id = PRIV_ESCALATION_EVENT_ID -> "Privilege Escalation"
    [] id = SERVICE_STOP_EVENT_ID -> "Service Stopped"

\* C2: an account-created, privilege-granted or service-stopped event appends
\* exactly one alert of the matching type, with the Time and Account of the
\* record that triggered it and the event's Message as Details, whatever the
\* counters hold.
C2_UnconditionalRules ==
  [][(Evaluated /\ result'.value.EventID \in
        {ACCOUNT_CREATED_EVENT_ID, PRIV_ESCALATION_EVENT_ID, SERVICE_STOP_EVENT_ID}) =>
       LET e == result'.value
           r == log'[Len(log')]
       IN alerts' = Append(alerts,
            [Time |-> Str(r.TimeCreated.SystemTime),
             Account |-> e.Account,
             Type |-> Str(UnconditionalType(e.EventID)),
             Details |-> e.Message])]_vars

C2_Witness ==
  /\ Get(failed_logins, Str("bob")) >= FAILED_LOGIN_THRESHOLD
  /\ \E i, j \in DOMAIN alerts :
       /\ alerts[i].Type = Str("Service Stopped")
       /\ alerts[i].Account = Str("alice")
       /\ alerts[i].Details = Str("m")
       /\ alerts[j].Type = Str("New User Account Created")
       /\ alerts[j].Account = Str("N/A")
       /\ alerts[j].Details = Str("")

\* C3: an event whose EventID is none of the four configured ones changes
\* neither the alert sequence nor any failed-login counter.
C3_OtherEventIgnored ==
  [][(Evaluated /\ result'.value.EventID \notin RuleEventIDs) =>
       (alerts' = alerts /\ failed_logins' = failed_logins)]_vars

C3_Witness ==
  /\ alerts # <<>>
  /\ Get(failed_logins, Str("bob")) >= FAILED_LOGIN_THRESHOLD
  /\ Len(processed) > 0
  /\ processed[Len(processed)].EventID \notin RuleEventIDs

C4_Order ==
  /\ Len(origin) = Len(alerts)
  /\ \A i, j \in DOMAIN alerts : i < j => origin[i] < origin[j]
  /\ \A i \in DOMAIN alerts :
       /\ origin[i] \in DOMAIN log
       /\ parse_event(log[origin[i]]).raised = "none"
       /\ alerts[i].Time = parse_event(log[origin[i]]).value.Time
       /\ alerts[i].Account = parse_event(log[origin[i]]).value.Account
C4_AppendOnly ==
  /\ Len(alerts') >= Len(alerts)
  /\ SubSeq(alerts', 1, Len(alerts)) = alerts
\* C4: alerts are in the order of the records that triggered them, and no
\* step removes, reorders or changes an alert already in the sequence.
C4_AppendOnlyInOrder == []C4_Order /\ [][C4_AppendOnly]_vars

C4_Witness ==
  /\ pc = "done"
  /\ Len(alerts) >= 3
  /\ alerts[1].Type # alerts[2].Type
  /\ alerts[2].Type # alerts[3].Type
  /\ origin[2] > origin[1] + 1

\* C5: on a record with a valid EventID and TimeCreated, parse_event returns
\* them as found, and substitutes "N/A" for an absent TargetUserName entry
\* and "" for an absent Message element, without failing.
C5_Defaults ==
  pc = "parsed" =>
    LET r == log[1] IN
      \A n \in EventIDs :
        (/\ r.wellformed
         /\ r.EventID = Elem(Str(Decimal(n)))
         /\ r.TimeCreated.present
         /\ r.TimeCreated.hasSystemTime) =>
           /\ result.raised = "none"
           /\ result.value.EventID = n
           /\ result.value.Time = Str(r.TimeCreated.SystemTime)
           /\ (~r.TargetUserName.present => result.value.Account = Str("N/A"))
           /\ (~r.Message.present => result.value.Message = Str(""))

C5_Witness ==
  /\ pc = "parsed"
  /\ result.raised = "none"
  /\ ~log[1].TargetUserName.present
  /\ ~log[1].Message.present
  /\ result.value.Account = Str("N/A")
  /\ result.value.Message = Str("")
  /\ result.value.EventID = SERVICE_STOP_EVENT_ID

\* C6: every record that parses yields an event whose EventID is an integer
\* and whose Time, Account and Message are strings, never None, also when
\* the TargetUserName entry or the Message element is present without text.
C6_AllFieldsPopulated ==
  (pc = "parsed" /\ result.raised = "none") =>
    /\ result.value.EventID \in Int
    /\ result.value.Time.type = "str"
    /\ result.value.Account.type = "str"
    /\ result.value.Message.type = "str"

\* what the sinks have written
SinkItems ==
  {i \in DOMAIN console :
     \/ console[i].kind = "table"
     \/ console[i].title = "No suspicious events detected!"
     \/ console[i].title = "Alerts saved to alerts_report.csv"}

C7_State ==
  /\ pc = "aborted" =>
       /\ exit_status = "1"
       /\ SinkItems = {}
       /\ ~csv_file.exists
  /\ pc \in {"analyzed", "displayed", "saved", "done"} =>
       /\ ~more
       /\ Len(processed) = Len(log)
  /\ pc = "analyzed" =>
       /\ \A i \in DOMAIN log :
            /\ parse_event(log[i]).raised = "none"
            /\ processed[i] = parse_event(log[i]).value
  /\ (SinkItems # {} \/ csv_file.exists) => pc \in {"displayed", "saved", "done"}
C7_Step ==
  /\ ParseFailed =>
       /\ pc' = "aborted"
       /\ exit_status' = "1"
       /\ processed' = processed
  /\ Evaluated => processed' = Append(processed, parse_event(log'[Len(log')]).value)
  /\ (~Evaluated /\ ~ParseFailed) => (log' = log /\ processed' = processed)
  /\ pc # "aborted"
\* C7: a record on which parse_event raises ends the run with exit status 1,
\* nothing after it is processed and neither sink runs; otherwise every
\* record is processed once, in source order, before display and export.
C7_CompleteOrAbort == []C7_State /\ [][C7_Step]_vars

C7_Witness ==
  /\ pc = "aborted"
  /\ result.raised = "ValueError"
  /\ more
  /\ Len(log) = Len(processed) + 1
  /\ alerts # <<>>

\* the text of an alert field in a row
FieldText(v) == IF v = None THEN "" ELSE v.val
RowsMatch(rows, al) ==
  /\ Len(rows) = Len(al)
  /\ \A i \in DOMAIN al :
       rows[i] = <<FieldText(al[i].Time), FieldText(al[i].Account),
                   FieldText(al[i].Type), FieldText(al[i].Details)>>
Tables == {i \in DOMAIN console : console[i].kind = "table"}
Notices ==
  {i \in DOMAIN console : console[i].title = "No suspicious events detected!"}
SinksFollowAlerts(columns) ==
  IF alerts = <<>>
  THEN /\ Cardinality(Notices) = 1
       /\ Tables = {}
       /\ ~csv_file.exists
  ELSE /\ Notices = {}
       /\ Cardinality(Tables) = 1
       /\ \A i \in Tables :
            console[i].columns = columns /\ RowsMatch(console[i].rows, alerts)
       /\ csv_file.exists
       /\ csv_file.header = columns
       /\ RowsMatch(csv_file.rows, alerts)

\* C8 as stated: after a completed run an empty alert sequence gives the
\* notice, no table and no file; a non-empty one gives a table and a file
\* with one row per alert, in order, under the columns Timestamp, Account,
\* Type, Details.
C8_AsStated ==
  pc = "done" => SinksFollowAlerts(<<"Timestamp", "Account", "Type", "Details">>)

\* C8 amended: the same, under the columns Time, Account, Type, Details.
C8_SinksFollowAlerts ==
  pc = "done" => SinksFollowAlerts(<<"Time", "Account", "Type", "Details">>)

C8_Witness ==
  /\ pc = "done"
  /\ Len(alerts) >= 2
  /\ csv_file.exists
  /\ \E i \in DOMAIN alerts : alerts[i].Account = None
  /\ csv_file.rows[Len(alerts)][4] = "6 failed attempts"

C9_Counts ==
  \A a \in Accounts \cup DOMAIN failed_logins :
    Get(failed_logins, a) = FailedLoginsOf(processed, a)
C9_Step ==
  /\ DOMAIN failed_logins \subseteq DOMAIN failed_logins'
  /\ \A a \in Accounts \cup DOMAIN failed_logins' :
       \/ Get(failed_logins', a) = Get(failed_logins, a)
       \/ /\ Get(failed_logins', a) = Get(failed_logins, a) + 1
          /\ Evaluated
          /\ result'.value.EventID = FAILED_LOGIN_EVENT_ID
          /\ result'.value.Account = a
\* C9: a counter only ever grows, by exactly 1, when a failed-login event of
\* its own account is processed, and always equals the number of
\* failed-login events of that account processed so far.
C9_CounterMonotone == []C9_Counts /\ [][C9_Step]_vars

C9_Witness ==
  /\ Get(failed_logins, Str("bob")) >= 2
  /\ Get(failed_logins, None) = 1
  /\ Get(failed_logins, Str("alice")) = 0
  /\ \E i \in DOMAIN processed : processed[i].EventID = ACCOUNT_CREATED_EVENT_ID

\* C10: whenever analyze_events is entered, also for the second time in one
\* process, the counter map and the alert sequence are empty.
C10_FreshPerRun ==
  [][(pc # "analyzing" /\ pc' = "analyzing") =>
       (alerts' = <<>> /\ DOMAIN failed_logins' = {})]_vars

====
